---- MODULE Spec2Model ----
(***************************************************************************)
(* Model of the data-completeness reconciliation core of the repository:   *)
(*   src/fetch_history_data.py  ZhituAPIFetcher (credential rotation,      *)
(*                              HTTP status and body handling)             *)
(*   src/check_and_refetch.py   marker store, completeness scan,           *)
(*                              single-date check, refetch, CLI dispatch   *)
(*                                                                         *)
(* Dates are modelled as the integers 1..NumDates; their numeric order is  *)
(* the lexicographic order of the ISO date strings that sorted() uses.     *)
(* Credentials are modelled by their position in the configured list.      *)
(***************************************************************************)
EXTENDS Integers, Sequences, FiniteSets, TLC

\* ------------------------------------------------------------------ bounds
MaxTokens == 3
MaxCalls == 4
MaxRecords == 1
NumDates == 2
MaxDefects == 2
MaxRuns == 2

\* ------------------------------------------------- fetcher: pure functions

\* last_used_token = None
NoToken == 0

\* the statuses a request can end with; "timeout" and "neterr" are the
\* exceptions requests.get raises, "500" stands for any other error status
Statuses == {"401", "403", "429", "500", "timeout", "neterr", "200"}

\* the statuses that mark the credential as failed
MarkingStatuses == {"401", "403", "429"}

\* bodies of a 200 response, by shape
\*   array n        [r1..rn]
\*   env_list n     {"code": 200, "data": [r1..rn]}
\*   env_obj_list n {"code": 200, "data": {"list": [r1..rn]}}
\*   env_obj_nolist {"code": 200, "data": {}}
\*   env_obj_num    {"code": 200, "data": {"list": 5}}
\*   env_nodata     {"code": 200}
\*   env_other      {"code": 200, "data": "x"}
\*   env_err        {"code": 500, "msg": "..."}
\*   scalar         7
\*   badjson        not JSON
SizedShapes == {"array", "env_list", "env_obj_list"}
PlainShapes == {"env_obj_nolist", "env_obj_num", "env_nodata", "env_other",
                "env_err", "scalar", "badjson"}
Bodies == [shape : SizedShapes, n : 0..MaxRecords]
          \cup [shape : PlainShapes, n : {0}]
NoBody == [shape |-> "badjson", n |-> 0]

\* what a fetch call returns: a list of n records, or a value that is no list
ListOf(n) == [kind |-> "list", n |-> n]
EmptyResult == ListOf(0)
NumberResult == [kind |-> "number", n |-> 5]

\* mutant: the result is not tested before it is written
Truthy_Always(r) == TRUE

\* Python truthiness of a returned value (if limit_up: ...)
Truthy(r) == \/ r.kind = "list" /\ r.n > 0
             \/ r.kind = "number" /\ r.n # 0

\* tokens[i] for a 0-based index i
TokenAt(toks, i) == toks[i + 1]

TokenSet(toks) == {toks[i] : i \in 1..Len(toks)}

\* the for-loop of _get_next_token, k iterations left: the first token from
\* index idx on that is not failed, or tok = NoToken when the loop ran out
RECURSIVE ProbeTokens(_, _, _, _)
ProbeTokens(toks, idx, failed, k) ==
  IF k = 0 THEN [tok |-> NoToken, idx |-> idx]
  ELSE LET token == TokenAt(toks, idx)
           next == (idx + 1) % Len(toks)
       IN IF token \in failed
          THEN ProbeTokens(toks, next, failed, k - 1)
          ELSE [tok |-> token, idx |-> next]

\* mutant: the loop returns the token at the index without looking at the
\* failed set
GetNextToken_NoSkip(toks, idx, failed) ==
  [tok |-> TokenAt(toks, idx), idx |-> (idx + 1) % Len(toks),
   failed |-> failed, last |-> TokenAt(toks, idx)]

\* mutant: after the reset the first token of the list is used
GetNextToken_ResetFirst(toks, idx, failed) ==
  LET p == ProbeTokens(toks, idx, failed, Len(toks))
  IN IF p.tok # NoToken
     THEN [tok |-> p.tok, idx |-> p.idx, failed |-> failed, last |-> p.tok]
     ELSE [tok |-> TokenAt(toks, 0), idx |-> 1 % Len(toks),
           failed |-> {}, last |-> TokenAt(toks, 0)]

\* mutant: the failed set is cleared as soon as a failed token is met
GetNextToken_EagerClear(toks, idx, failed) ==
  LET p == ProbeTokens(toks, idx, failed, Len(toks))
  IN IF p.tok # NoToken /\ TokenAt(toks, idx) \notin failed
     THEN [tok |-> p.tok, idx |-> p.idx, failed |-> failed, last |-> p.tok]
     ELSE [tok |-> TokenAt(toks, idx), idx |-> (idx + 1) % Len(toks),
           failed |-> {}, last |-> TokenAt(toks, idx)]

\* _get_next_token: the token returned and the fields it leaves
GetNextToken(toks, idx, failed) ==
  LET p == ProbeTokens(toks, idx, failed, Len(toks))
  IN IF p.tok # NoToken
     THEN [tok |-> p.tok, idx |-> p.idx, failed |-> failed, last |-> p.tok]
     ELSE [tok |-> TokenAt(toks, idx), idx |-> (idx + 1) % Len(toks),
           failed |-> {}, last |-> TokenAt(toks, idx)]

\* mutant: the token recorded as failed is the one the rotation points at
TrackingToken_Next(toks, idx, last, urlToken) == TokenAt(toks, idx)

\* mutant: the token recorded as failed is the first of the list
TrackingToken_First(toks, idx, last, urlToken) == TokenAt(toks, 0)

\* tracking_token = self.last_used_token or token
TrackingToken(toks, idx, last, urlToken) ==
  IF last # NoToken THEN last ELSE urlToken

\* mutant: every error status marks the credential
MarksFailed_AnyError(status) == status \in MarkingStatuses \cup {"500"}

\* mutant: a rate-limited credential is not marked
MarksFailed_Not429(status) == status \in {"401", "403"}

\* the status branches of _fetch that add the credential to failed_tokens
MarksFailed(status) == status \in MarkingStatuses

\* the value _fetch returns for the body of a 200 response
ParseBody(body) ==
  CASE body.shape = "array" -> ListOf(body.n)
    [] body.shape = "env_list" -> ListOf(body.n)
    [] body.shape = "env_obj_list" -> ListOf(body.n)
    [] body.shape = "env_obj_nolist" -> EmptyResult
    [] body.shape = "env_obj_num" -> NumberResult
    [] body.shape = "env_nodata" -> EmptyResult
    [] body.shape = "env_other" -> EmptyResult
    [] body.shape = "env_err" -> EmptyResult
    [] body.shape = "scalar" -> EmptyResult
    [] OTHER -> EmptyResult

\* the value _fetch returns
FetchResult(status, body) ==
  IF status = "200" THEN ParseBody(body) ELSE EmptyResult

\* ------------------------------------------------ stores: pure functions

Dates == 1..NumDates

\* the category directories, in the order the code visits them
Cats == <<"limit_up", "limit_down", "explode">>
CatSet == {"limit_up", "limit_down", "explode"}

\* a snapshot file data/history/<category>/<date>.json:
\*   st    "missing", "corrupt" (json.load raises) or "json" (an object)
\*   ctag  the "count" field: "absent", "null" or "int"
\*   cnt   the value of an integer "count"
\*   date  the "date" field
\*   data  the number of records in "data"
Missing == [st |-> "missing", ctag |-> "absent", cnt |-> 0, date |-> 0,
            data |-> 0]
Corrupt == [st |-> "corrupt", ctag |-> "absent", cnt |-> 0, date |-> 0,
            data |-> 0]

\* mutant: the count written is one less than the number of records
Snapshot_CountOff(d, n) ==
  [st |-> "json", ctag |-> "int", cnt |-> n - 1, date |-> d, data |-> n]

\* json.dump({"date": date, "count": len(x), "data": x}, f)
Snapshot(d, n) ==
  [st |-> "json", ctag |-> "int", cnt |-> n, date |-> d, data |-> n]

\* the states a file of date d can be found in
FileKinds == {"missing", "corrupt", "absent", "null", "zero", "neg"}
FileOfKind(kind, d) ==
  CASE kind = "missing" -> Missing
    [] kind = "corrupt" -> Corrupt
    [] kind = "absent" ->
         [st |-> "json", ctag |-> "absent", cnt |-> 0, date |-> d, data |-> 0]
    [] kind = "null" ->
         [st |-> "json", ctag |-> "null", cnt |-> 0, date |-> d, data |-> 0]
    [] kind = "zero" ->
         [st |-> "json", ctag |-> "int", cnt |-> 0, date |-> d, data |-> 0]
    [] kind = "neg" ->
         [st |-> "json", ctag |-> "int", cnt |-> -1, date |-> d, data |-> 0]

\* os.path.exists(file)
Exists(f) == f.st # "missing"

\* mutant: a file without a count key counts as one record
CountField_AbsentIsOne(f) ==
  IF f.ctag = "absent" THEN [tag |-> "int", n |-> 1]
  ELSE [tag |-> f.ctag, n |-> f.cnt]

\* data.get('count', 0)
CountField(f) ==
  IF f.ctag = "absent" THEN [tag |-> "int", n |-> 0]
  ELSE [tag |-> f.ctag, n |-> f.cnt]

\* Python's count == 0
EqualsZero(c) == c.tag = "int" /\ c.n = 0

\* mutant: the test on the count is inverted
CheckFile_Inverted(f) ==
  IF ~Exists(f) THEN "missing"
  ELSE IF f.st = "corrupt" THEN "corrupt"
  ELSE IF ~EqualsZero(CountField(f)) THEN "zero"
  ELSE "ok"

\* mutant: a missing file raises no issue
CheckFile_MissingOk(f) ==
  IF ~Exists(f) THEN "ok"
  ELSE IF f.st = "corrupt" THEN "corrupt"
  ELSE IF EqualsZero(CountField(f)) THEN "zero"
  ELSE "ok"

\* the scan's check of one category file: the issue it raises, or "ok"
CheckFile(f) ==
  IF ~Exists(f) THEN "missing"
  ELSE IF f.st = "corrupt" THEN "corrupt"
  ELSE IF EqualsZero(CountField(f)) THEN "zero"
  ELSE "ok"

\* check_specific_date's check of one file: count > 0 raises TypeError on
\* None, which the except clause reports as a damaged file
CheckFileSingle(f) ==
  IF ~Exists(f) THEN "missing"
  ELSE IF f.st = "corrupt" THEN "corrupt"
  ELSE IF CountField(f).tag = "null" THEN "corrupt"
  ELSE IF EqualsZero(CountField(f)) THEN "zero"
  ELSE "ok"

\* the names in the limit_up directory: <date><ext>
JsonExt == ".json"
StrayExts == {".json.json", ".bak"}
FileName(d, ext) == [date |-> d, ext |-> ext]
StrayNames == {FileName(d, e) : d \in Dates, e \in StrayExts}

\* filename.endswith('.json')
EndsWithJson(name) == name.ext \in {".json", ".json.json"}

\* filename.replace('.json', ''): every occurrence of ".json" is removed
StripJson(name) == name.date

\* os.listdir(limit_up_dir)
ListLimitUp(fs, stray) ==
  {FileName(d, JsonExt) : d \in {x \in Dates : Exists(fs[<<"limit_up", x>>])}}
  \cup stray

\* mutant: the dates are collected from all three category directories
DiscoverDates_Union(fs, stray) ==
  {StripJson(nm) : nm \in {x \in ListLimitUp(fs, stray) : EndsWithJson(x)}}
  \cup {d \in Dates : \E c \in CatSet : Exists(fs[<<c, d>>])}

\* dates_with_data: the dates of the *.json names under limit_up
DiscoverDates(fs, stray) ==
  {StripJson(nm) : nm \in {x \in ListLimitUp(fs, stray) : EndsWithJson(x)}}

\* mutant: the dates are visited in descending order
RECURSIVE SortedSeq_Desc(_)
SortedSeq_Desc(S) ==
  IF S = {} THEN <<>>
  ELSE LET m == CHOOSE x \in S : \A y \in S : x >= y
       IN <<m>> \o SortedSeq_Desc(S \ {m})

\* sorted(S) as a sequence
RECURSIVE SortedSeq(_)
SortedSeq(S) ==
  IF S = {} THEN <<>>
  ELSE LET m == CHOOSE x \in S : \A y \in S : x <= y
       IN <<m>> \o SortedSeq(S \ {m})

\* the elements of a sequence
Range(q) == {q[i] : i \in 1..Len(q)}

\* the marker store data/.checked_dates.json:
\*   st "absent", "unreadable" (json.load raises) or "ok"; map: date -> reason
NoMarkers == <<>>
MarkerFile(st, map) == [st |-> st, map |-> map]

\* a reason is the list of its parts, which the code joins with " | "
GivenReason == <<[cat |-> "", kind |-> "holiday"]>>
NoDataReason == <<[cat |-> "", kind |-> "no_data"]>>

\* mutant: a marker file that does not parse marks every date
LoadMarkers_UnreadableMarksAll(store) ==
  IF store.st = "ok" THEN store.map
  ELSE IF store.st = "unreadable" THEN [d \in Dates |-> GivenReason]
  ELSE NoMarkers

\* mutant: the marker file is never read
LoadMarkers_Empty(store) == NoMarkers

\* load_checked_markers
LoadMarkers(store) == IF store.st = "ok" THEN store.map ELSE NoMarkers

\* mutant: no date is ever treated as marked
IsChecked_Never(d, markers) == FALSE

\* date in checked_dates
IsChecked(d, markers) == d \in DOMAIN markers

\* the issues the scan raises for date d, in category order
ScanIssues(fs, d) ==
  LET all == [i \in 1..3 |->
                [cat |-> Cats[i], kind |-> CheckFile(fs[<<Cats[i], d>>])]]
  IN SelectSeq(all, LAMBDA x : x.kind # "ok")

\* all_ok of check_specific_date
SingleAllOk(fs, d) ==
  \A c \in CatSet : CheckFileSingle(fs[<<c, d>>]) = "ok"

\* ---------------------------------------------------------------- state

VARIABLES
  \* ZhituAPIFetcher
  tokens,               \* self.tokens
  current_token_index,  \* self.current_token_index
  failed_tokens,        \* self.failed_tokens
  last_used_token,      \* self.last_used_token
  fpc,                  \* "idle", or "requesting": a request is in flight
  urlToken,             \* the token _get_next_token returned, put in the URL
  \* history of the fetcher
  lastStatus,           \* how the last request ended
  result,               \* what the last fetch call returned
  lastBody,             \* the body of the last response
  selIndex,             \* current_token_index when the last selection began
  selFailed,            \* failed_tokens when the last selection began
  reqFailed,            \* failed_tokens when the last request was sent
  callLog,              \* the finished calls: token used and status
  \* the stores
  dataDir,              \* whether DATA_DIR exists
  catDir,               \* whether each category directory exists
  files,                \* the snapshot file of each (category, date)
  luStray,              \* names under limit_up that are not <date>.json
  markerStore,          \* the marker file
  \* the command line
  mode,                 \* "normal", "check_only" (--check-only), "date"
  argDate,              \* the date given with --date
  trading_dates,        \* get_trading_dates(...) of fetch_history_data.py
  run,                  \* the number of the run, counted from 1
  \* check_and_refetch_data and check_specific_date
  pc,                   \* where the run is
  checked_dates,        \* the markers loaded at the start of the run
  todo,                 \* the sorted dates the loop has not reached yet
  dates_to_refetch,
  stats,
  ret,                  \* what check_specific_date returned
  \* history of the check
  verdict,              \* how the scan classified each date
  issues,               \* the issues the scan raised for each date
  inspected,            \* the files the check looked at (exists or open)
  operator,             \* the questions put to the operator, with the answers
  \* refetch_data
  ri,                   \* position of the current date in dates_to_refetch
  ci,                   \* position of the current category in Cats
  counts,               \* limit_up_count, limit_down_count, explode_count
  success_count,
  fail_count,
  still_failed_dates,
  \* history of the refetch
  succeeded_dates,      \* the dates counted in success_count
  fetchEmpty,           \* per date, the categories whose fetch came back empty
  fetchLog,             \* the fetch calls issued: (date, category)
  written,              \* per file, the records fetched for it and written
  saved                 \* how the save of the markers ended

fetcherVars == <<tokens, current_token_index, failed_tokens, last_used_token,
                 fpc, urlToken, lastStatus, result, lastBody,
                 selIndex, selFailed, reqFailed, callLog>>

storeVars == <<dataDir, catDir, files, luStray, markerStore>>

cliVars == <<mode, argDate, trading_dates, run>>

checkVars == <<pc, checked_dates, todo, dates_to_refetch, stats, ret,
               verdict, issues, inspected, operator>>

refetchVars == <<ri, ci, counts, success_count, fail_count,
                 still_failed_dates, succeeded_dates, fetchEmpty, fetchLog,
                 written, saved>>

\* kept only when the fetcher is examined alone
fetcherHistory == <<lastStatus, result, lastBody, selIndex, selFailed,
                    reqFailed, callLog>>

vars == <<fetcherVars, storeVars, cliVars, checkVars, refetchVars>>

\* ----------------------------------------------------- fetcher: the steps

\* ZhituAPIFetcher.__init__ with the given token list
FetcherInit(toks) ==
  /\ tokens = toks
  /\ current_token_index = 0
  /\ failed_tokens = {}
  /\ last_used_token = NoToken
  /\ fpc = "idle"
  /\ urlToken = NoToken
  /\ lastStatus = "none"
  /\ result = EmptyResult
  /\ lastBody = NoBody
  /\ selIndex = 0
  /\ selFailed = {}
  /\ reqFailed = {}
  /\ callLog = <<>>

\* fetch_*_pool up to the request: token = self._get_next_token(), the URL
SelectStep ==
  LET g == GetNextToken(tokens, current_token_index, failed_tokens)
  IN /\ fpc = "idle"
     /\ fpc' = "requesting"
     /\ urlToken' = g.tok
     /\ current_token_index' = g.idx
     /\ failed_tokens' = g.failed
     /\ last_used_token' = g.last
     /\ UNCHANGED tokens

\* _fetch from the response on
RespondStep(status, body) ==
  /\ fpc = "requesting"
  /\ fpc' = "idle"
  /\ IF MarksFailed(status)
     THEN /\ failed_tokens' = failed_tokens \cup
               {TrackingToken(tokens, current_token_index,
                              last_used_token, urlToken)}
          /\ last_used_token' = NoToken
     ELSE UNCHANGED <<failed_tokens, last_used_token>>
  /\ UNCHANGED <<tokens, current_token_index, urlToken>>

\* ------------------------------------------------- the stores at the start

FileKeys == CatSet \X Dates

\* the records in a snapshot found at the start: more than a fetch of the
\* model brings, so that a rewritten snapshot differs from the one it replaces
StoredRecords == MaxRecords + 1

\* a store in which the files of `odd` are in the state `kinds` gives them,
\* the directories of `gone` do not exist, the names `stray` lie under
\* limit_up, and every other file is a snapshot this program wrote
StoreWith(odd, kinds, gone, stray) ==
  /\ dataDir = TRUE
  /\ catDir = [c \in CatSet |-> c \notin gone]
  /\ files = [k \in FileKeys |->
               IF k[1] \in gone THEN Missing
               ELSE IF k \in odd THEN FileOfKind(kinds[k], k[2])
               ELSE Snapshot(k[2], StoredRecords)]
  /\ luStray = stray

\* DATA_DIR does not exist
StoreAbsent ==
  /\ dataDir = FALSE
  /\ catDir = [c \in CatSet |-> FALSE]
  /\ files = [k \in FileKeys |-> Missing]
  /\ luStray = {}

\* the stores a run can find: at most MaxDefects things are not in order
\* (a file in one of the states of `kindSet`, a stray name of `straySet`
\* under limit_up, a category directory of `goneSet` that does not exist)
StoreInit(kindSet, straySet, goneSet) ==
  \E odd \in SUBSET FileKeys, stray \in SUBSET straySet,
     gone \in SUBSET goneSet :
    /\ Cardinality(odd) + Cardinality(stray) + Cardinality(gone)
         <= MaxDefects
    /\ kindSet = {} => odd = {}
    /\ \A k \in odd : k[1] \notin gone
    /\ "limit_up" \in gone => stray = {}
    /\ \E kinds \in [odd -> kindSet] : StoreWith(odd, kinds, gone, stray)

\* the marker files a run can find
MarkerInit ==
  \/ markerStore = MarkerFile("absent", NoMarkers)
  \/ markerStore = MarkerFile("unreadable", NoMarkers)
  \/ \E M \in SUBSET Dates :
       markerStore = MarkerFile("ok", [d \in M |-> GivenReason])

\* args.date when --date is not given
NoDate == 0

NoStats == [total |-> 0, to_refetch |-> 0, already_complete |-> 0,
            skipped_checked |-> 0]

CheckInit ==
  /\ pc = "main"
  /\ checked_dates = NoMarkers
  /\ todo = <<>>
  /\ dates_to_refetch = <<>>
  /\ stats = NoStats
  /\ ret = "none"
  /\ verdict = [d \in Dates |-> "none"]
  /\ issues = [d \in Dates |-> <<>>]
  /\ inspected = {}
  /\ operator = <<>>

NoCounts == [c \in CatSet |-> 0]

RefetchInit ==
  /\ ri = 0
  /\ ci = 0
  /\ counts = NoCounts
  /\ success_count = 0
  /\ fail_count = 0
  /\ still_failed_dates = <<>>
  /\ succeeded_dates = {}
  /\ fetchEmpty = [d \in Dates |-> {}]
  /\ fetchLog = <<>>
  /\ written = [k \in FileKeys |-> 0]
  /\ saved = "none"

\* ------------------------------------------------ check_specific_date

\* the exit status of the process: __main__ drops what check_specific_date
\* returns and calls sys.exit nowhere, so the status is 0 unless an
\* exception ended the run
ExitStatus == IF pc = "crashed" THEN 1 ELSE 0

\* __main__ with --date: check_specific_date(args.date)
CheckSpecificDate ==
  /\ pc = "main"
  /\ mode = "date"
  /\ pc' = "done"
  /\ checked_dates' = LoadMarkers(markerStore)
  /\ IF IsChecked(argDate, LoadMarkers(markerStore))
     THEN /\ ret' = "true"
          /\ UNCHANGED inspected
     ELSE /\ ret' = IF SingleAllOk(files, argDate) THEN "true" ELSE "false"
          /\ inspected' = inspected \cup {<<c, argDate>> : c \in CatSet}
  /\ UNCHANGED <<todo, dates_to_refetch, stats, verdict, issues, operator>>
  /\ UNCHANGED <<fetcherVars, storeVars, cliVars, refetchVars>>

\* ------------------------------------------- check_and_refetch_data: scan

\* lines 65-103: DATA_DIR, the markers, the directories, the date set
ScanStart ==
  /\ pc = "main"
  /\ mode \in {"normal", "check_only"}
  /\ IF ~dataDir
     THEN /\ pc' = "done"
          /\ UNCHANGED <<checked_dates, todo, catDir>>
     ELSE /\ pc' = "scan"
          /\ checked_dates' = LoadMarkers(markerStore)
          /\ catDir' = [c \in CatSet |-> TRUE]
          /\ todo' = SortedSeq(DiscoverDates(files, luStray))
  /\ UNCHANGED <<dates_to_refetch, stats, ret, verdict, issues, inspected,
                 operator>>
  /\ UNCHANGED <<fetcherVars, dataDir, files, luStray, markerStore, cliVars,
                 refetchVars>>

\* mutant: a skipped date is counted in total as well
Tally_TotalCountsSkipped(st, class) ==
  CASE class = "skipped" -> [st EXCEPT !.skipped_checked = @ + 1,
                                       !.total = @ + 1]
    [] class = "incomplete" -> [st EXCEPT !.total = @ + 1,
                                          !.to_refetch = @ + 1]
    [] class = "complete" -> [st EXCEPT !.total = @ + 1,
                                        !.already_complete = @ + 1]

\* the counters of stats that the loop increments for a date of each class
Tally(st, class) ==
  CASE class = "skipped" -> [st EXCEPT !.skipped_checked = @ + 1]
    [] class = "incomplete" -> [st EXCEPT !.total = @ + 1,
                                          !.to_refetch = @ + 1]
    [] class = "complete" -> [st EXCEPT !.total = @ + 1,
                                        !.already_complete = @ + 1]

\* lines 106-171: one iteration of the loop over sorted(dates_with_data)
ScanDate ==
  /\ pc = "scan"
  /\ todo # <<>>
  /\ LET date == Head(todo)
         found == ScanIssues(files, date)
     IN /\ todo' = Tail(todo)
        /\ IF IsChecked(date, checked_dates)
           THEN /\ stats' = Tally(stats, "skipped")
                /\ verdict' = [verdict EXCEPT ![date] = "skipped"]
                /\ UNCHANGED <<dates_to_refetch, issues, inspected>>
           ELSE /\ inspected' = inspected \cup {<<c, date>> : c \in CatSet}
                /\ issues' = [issues EXCEPT ![date] = found]
                /\ IF found # <<>>
                   THEN /\ dates_to_refetch' = Append(dates_to_refetch, date)
                        /\ stats' = Tally(stats, "incomplete")
                        /\ verdict' = [verdict EXCEPT ![date] = "incomplete"]
                   ELSE /\ stats' = Tally(stats, "complete")
                        /\ verdict' = [verdict EXCEPT ![date] = "complete"]
                        /\ UNCHANGED dates_to_refetch
  /\ UNCHANGED <<pc, checked_dates, ret, operator>>
  /\ UNCHANGED <<fetcherVars, storeVars, cliVars, refetchVars>>

\* lines 173-179: the loop is over, the tally is printed
ScanTally ==
  /\ pc = "scan"
  /\ todo = <<>>
  /\ pc' = "tally"
  /\ UNCHANGED <<checked_dates, todo, dates_to_refetch, stats, ret,
                 verdict, issues, inspected, operator>>
  /\ UNCHANGED <<fetcherVars, storeVars, cliVars, refetchVars>>

\* --------------------------------- the completeness check, on any store

ScanInit ==
  /\ FetcherInit(<<>>)
  /\ \/ StoreInit(FileKinds, StrayNames, CatSet)
     \/ StoreAbsent
  /\ MarkerInit
  /\ \/ mode = "check_only" /\ argDate = NoDate
     \/ mode = "date" /\ argDate \in Dates
  /\ trading_dates = <<>>
  /\ run = 1
  /\ CheckInit
  /\ RefetchInit

ScanNext == CheckSpecificDate \/ ScanStart \/ ScanDate \/ ScanTally

ScanSpec == ScanInit /\ [][ScanNext]_vars

\* the check is one sequential process: while a statement is left to
\* execute, it is executed
ScanLiveSpec == ScanSpec /\ WF_vars(ScanNext)

\* ------------------------------------------------------ refetch_data

\* API_CONFIG["tokens"]: the two configured credentials, by position
ConfigTokens == <<1, 2>>

\* what the operator can type at a prompt, after strip().lower()
Answers == {"y", "n", "", "yes"}

\* mutant: every answer but 'n' starts the refetch
Confirms_NotN(a) == a # "n"

\* response != 'y' cancels: only 'y' starts the refetch
Confirms(a) == a = "y"

\* mutant: --check-only leaves input as it is
InputAnswers_Real(m) == Answers

\* what input() can return: with --check-only it is replaced by a function
\* that asks nobody and returns 'n'
InputAnswers(m) == IF m = "check_only" THEN {"n"} ELSE Answers

\* the log of the questions put to the operator, after input() returned a
Asked(m, ops, q, a) ==
  IF m = "check_only" THEN ops ELSE Append(ops, [q |-> q, a |-> a])

\* fetcher = ZhituAPIFetcher()
FetcherNew(toks) ==
  /\ tokens' = toks
  /\ current_token_index' = 0
  /\ failed_tokens' = {}
  /\ last_used_token' = NoToken
  /\ fpc' = "idle"
  /\ urlToken' = NoToken
  /\ lastStatus' = "none"
  /\ result' = EmptyResult
  /\ lastBody' = NoBody
  /\ selIndex' = 0
  /\ selFailed' = {}
  /\ reqFailed' = {}
  /\ callLog' = <<>>

\* mutant: a date fails only when all three categories came back empty
HasIssue_AllZero(cnt) ==
  cnt["limit_up"] = 0 /\ cnt["limit_down"] = 0 /\ cnt["explode"] = 0

\* has_issue = (limit_up_count == 0 or limit_down_count == 0 or
\*              explode_count == 0)
HasIssue(cnt) ==
  cnt["limit_up"] = 0 \/ cnt["limit_down"] = 0 \/ cnt["explode"] = 0

\* lines 181-193: nothing to refetch, or the question to the operator
Prompt ==
  /\ pc = "tally"
  /\ IF dates_to_refetch = <<>>
     THEN /\ pc' = "done"
          /\ UNCHANGED <<operator, fetcherVars, refetchVars>>
     ELSE \E a \in InputAnswers(mode) :
            /\ operator' = Asked(mode, operator, "refetch", a)
            /\ IF Confirms(a)
               THEN /\ pc' = "refetch"
                    /\ FetcherNew(ConfigTokens)
                    /\ ri' = 1
                    /\ ci' = 1
                    /\ UNCHANGED <<counts, success_count, fail_count,
                                   still_failed_dates, succeeded_dates,
                                   fetchEmpty, fetchLog, written, saved>>
               ELSE /\ pc' = "done"
                    /\ UNCHANGED <<fetcherVars, refetchVars>>
  /\ UNCHANGED <<checked_dates, todo, dates_to_refetch, stats, ret,
                 verdict, issues, inspected>>
  /\ UNCHANGED <<storeVars, cliVars>>

\* fetcher.fetch_<category>_pool(date) up to the request
RefetchSelectStep ==
  /\ pc = "refetch"
  /\ SelectStep
  /\ fetchLog' = Append(fetchLog, <<dates_to_refetch[ri], Cats[ci]>>)
  /\ UNCHANGED <<ri, ci, counts, success_count, fail_count,
                 still_failed_dates, succeeded_dates, fetchEmpty, written,
                 saved>>
  /\ UNCHANGED <<storeVars, cliVars, checkVars>>

RefetchSelect ==
  /\ RefetchSelectStep
  /\ UNCHANGED fetcherHistory

\* the response, and lines 224-276 for the category: the snapshot written
\* when the result is not empty, the count, and after the third category
\* the verdict on the date; len() of a result that is no list raises
RefetchRespondStep(status, body) ==
  /\ pc = "refetch"
  /\    LET r == FetchResult(status, body)
             date == dates_to_refetch[ri]
             cat == Cats[ci]
             cnt == IF Truthy(r) THEN [counts EXCEPT ![cat] = r.n]
                    ELSE [counts EXCEPT ![cat] = 0]
         IN /\ RespondStep(status, body)
            /\ IF Truthy(r) /\ r.kind # "list"
               THEN /\ pc' = "crashed"
                    /\ UNCHANGED <<files, ri, ci, counts, success_count,
                                   fail_count, still_failed_dates,
                                   succeeded_dates, fetchEmpty, written>>
               ELSE /\ files' = IF Truthy(r)
                                THEN [files EXCEPT ![<<cat, date>>] =
                                        Snapshot(date, r.n)]
                                ELSE files
                    /\ written' = IF Truthy(r)
                                  THEN [written EXCEPT ![<<cat, date>>] = r.n]
                                  ELSE written
                    /\ fetchEmpty' = IF r = EmptyResult
                                     THEN [fetchEmpty EXCEPT ![date] =
                                             @ \cup {cat}]
                                     ELSE fetchEmpty
                    /\ IF ci < 3
                       THEN /\ ci' = ci + 1
                            /\ counts' = cnt
                            /\ UNCHANGED <<pc, ri, success_count, fail_count,
                                           still_failed_dates,
                                           succeeded_dates>>
                       ELSE /\ IF HasIssue(cnt)
                               THEN /\ fail_count' = fail_count + 1
                                    /\ still_failed_dates' =
                                         Append(still_failed_dates, date)
                                    /\ UNCHANGED <<success_count,
                                                   succeeded_dates>>
                               ELSE /\ success_count' = success_count + 1
                                    /\ succeeded_dates' =
                                         succeeded_dates \cup {date}
                                    /\ UNCHANGED <<fail_count,
                                                   still_failed_dates>>
                            /\ ri' = ri + 1
                            /\ ci' = 1
                            /\ counts' = NoCounts
                            /\ pc' = IF ri = Len(dates_to_refetch)
                                     THEN "report" ELSE "refetch"
  /\ UNCHANGED <<fetchLog, saved>>
  /\ UNCHANGED <<dataDir, catDir, luStray, markerStore, cliVars>>
  /\ UNCHANGED <<checked_dates, todo, dates_to_refetch, stats, ret,
                 verdict, issues, inspected, operator>>

RefetchRespond ==
  \E status \in Statuses :
    \E body \in (IF status = "200" THEN Bodies ELSE {NoBody}) :
      /\ RefetchRespondStep(status, body)
      /\ UNCHANGED fetcherHistory

\* lines 297-337: the reason recorded for a date that still fails
MarkerReason(fs, d) ==
  LET all == [i \in 1..3 |->
                [cat |-> Cats[i], kind |-> CheckFile(fs[<<Cats[i], d>>])]]
      found == SelectSeq(all, LAMBDA x : x.kind # "ok")
  IN IF found # <<>> THEN found ELSE NoDataReason

\* markers_to_save
MarkersToSave(fs, failed) ==
  [d \in Range(failed) |-> MarkerReason(fs, d)]

\* mutant: the mapping saved holds the new markers only
MergeMarkers_Replace(old, new) == new

\* markers.update(markers_to_save)
MergeMarkers(old, new) ==
  [d \in (DOMAIN old) \cup (DOMAIN new) |->
     IF d \in DOMAIN new THEN new[d] ELSE old[d]]

\* what save_checked_markers can leave behind: the mapping written; or,
\* when it raises, the old file (makedirs or open failed) or a cut-off one
\* (the dump failed)
SaveOutcomes(store, map) ==
  {MarkerFile("ok", map), store, MarkerFile("unreadable", NoMarkers)}

\* lines 281-350: the result, and the markers for the dates that still fail
Report ==
  /\ pc = "report"
  /\ pc' = "done"
  /\ IF still_failed_dates = <<>>
     THEN UNCHANGED <<operator, markerStore, saved>>
     ELSE \E a \in InputAnswers(mode) :
            /\ operator' = Asked(mode, operator, "mark", a)
            /\ IF a # "n"
               THEN LET map == MergeMarkers(LoadMarkers(markerStore),
                                           MarkersToSave(files,
                                                         still_failed_dates))
                    IN /\ markerStore' \in SaveOutcomes(markerStore, map)
                       /\ saved' = IF markerStore' = MarkerFile("ok", map)
                                   THEN "written" ELSE "failed"
               ELSE UNCHANGED <<markerStore, saved>>
  /\ UNCHANGED <<checked_dates, todo, dates_to_refetch, stats, ret,
                 verdict, issues, inspected>>
  /\ UNCHANGED <<dataDir, catDir, files, luStray, cliVars>>
  /\ UNCHANGED <<fetcherVars, ri, ci, counts, success_count, fail_count,
                 still_failed_dates, succeeded_dates, fetchEmpty, fetchLog,
                 written>>

\* ------------------------------------------------------- the whole program

\* the states of a file that the refetch tells apart
RunFileKinds == {"missing", "zero", "corrupt"}

Init ==
  /\ FetcherInit(<<>>)
  /\ \/ StoreInit(RunFileKinds, {}, {})
     \/ StoreAbsent
  /\ MarkerInit
  /\ \/ mode \in {"normal", "check_only"} /\ argDate = NoDate
     \/ mode = "date" /\ argDate \in Dates
  /\ trading_dates = <<>>
  /\ run = 1
  /\ CheckInit
  /\ RefetchInit

Next ==
  \/ CheckSpecificDate
  \/ ScanStart
  \/ ScanDate
  \/ ScanTally
  \/ Prompt
  \/ RefetchSelect
  \/ RefetchRespond
  \/ Report

Spec == Init /\ [][Next]_vars

\* the steps of a check that wait for nobody: no operator, no upstream
CheckSteps == CheckSpecificDate \/ ScanStart \/ ScanDate \/ ScanTally

\* the check is one sequential process: while a statement of it is left to
\* execute, it is executed; the operator may leave a question unanswered
CheckLiveSpec == Spec /\ WF_vars(CheckSteps)

\* ------------------------------------------------- one run after another

\* the process has ended (it returned or it raised) and check_and_refetch.py
\* is started again on the stores the run left behind
Rerun ==
  /\ pc \in {"done", "crashed"}
  /\ run < MaxRuns
  /\ run' = run + 1
  /\ \/ mode' \in {"normal", "check_only"} /\ argDate' = NoDate
     \/ mode' = "date" /\ argDate' \in Dates
  /\ FetcherNew(<<>>)
  /\ pc' = "main"
  /\ checked_dates' = NoMarkers
  /\ todo' = <<>>
  /\ dates_to_refetch' = <<>>
  /\ stats' = NoStats
  /\ ret' = "none"
  /\ verdict' = [d \in Dates |-> "none"]
  /\ issues' = [d \in Dates |-> <<>>]
  /\ inspected' = {}
  /\ operator' = <<>>
  /\ ri' = 0
  /\ ci' = 0
  /\ counts' = NoCounts
  /\ success_count' = 0
  /\ fail_count' = 0
  /\ still_failed_dates' = <<>>
  /\ succeeded_dates' = {}
  /\ fetchEmpty' = [d \in Dates |-> {}]
  /\ fetchLog' = <<>>
  /\ written' = [k \in FileKeys |-> 0]
  /\ saved' = "none"
  /\ UNCHANGED <<storeVars, trading_dates>>

\* the first run finds files with count 0 among snapshots in order; the
\* later runs find what the runs before them left
RerunFileKinds == {"zero"}

RerunInit ==
  /\ FetcherInit(<<>>)
  /\ StoreInit(RerunFileKinds, {}, {})
  /\ MarkerInit
  /\ \/ mode \in {"normal", "check_only"} /\ argDate = NoDate
     \/ mode = "date" /\ argDate \in Dates
  /\ trading_dates = <<>>
  /\ run = 1
  /\ CheckInit
  /\ RefetchInit

RerunNext == Next \/ Rerun

RerunSpec == RerunInit /\ [][RerunNext]_vars

\* --------------------------------- a refetch with the fetcher's calls kept

\* the refetch of RefetchSelect, with the selection kept as FSelect keeps it
TracedSelect ==
  /\ RefetchSelectStep
  /\ selIndex' = current_token_index
  /\ selFailed' = failed_tokens
  /\ reqFailed' = failed_tokens'
  /\ UNCHANGED <<lastStatus, result, lastBody, callLog>>

\* the refetch of RefetchRespond, with the call kept as FRespond keeps it
TracedRespond ==
  \E status \in Statuses :
    \E body \in (IF status = "200" THEN Bodies ELSE {NoBody}) :
      /\ RefetchRespondStep(status, body)
      /\ lastStatus' = status
      /\ result' = FetchResult(status, body)
      /\ lastBody' = body
      /\ callLog' = Append(callLog, [tok |-> urlToken, status |-> status])
      /\ UNCHANGED <<selIndex, selFailed, reqFailed>>

\* the store the refetch starts from: snapshots in order but for files with
\* count 0 on the first date, so that one date is fetched again
RotationFileKinds == {"zero"}

RotationInit ==
  /\ FetcherInit(<<>>)
  /\ StoreInit(RotationFileKinds, {}, {})
  /\ \A c \in CatSet : files[<<c, NumDates>>] =
                           Snapshot(NumDates, StoredRecords)
  /\ markerStore = MarkerFile("absent", NoMarkers)
  /\ mode = "normal"
  /\ argDate = NoDate
  /\ trading_dates = <<>>
  /\ run = 1
  /\ CheckInit
  /\ RefetchInit

RotationNext ==
  \/ ScanStart
  \/ ScanDate
  \/ ScanTally
  \/ Prompt
  \/ TracedSelect
  \/ TracedRespond
  \/ Report

RotationSpec == RotationInit /\ [][RotationNext]_vars

\* ------------------------- fetch_history_data.py: fetch_two_months_data

\* lines 252-270: the directories are created, the fetcher is built, the
\* trading dates are computed; trading_dates[0] raises on an empty list
HistStart ==
  /\ pc = "main"
  /\ mode = "history"
  /\ dataDir' = TRUE
  /\ catDir' = [c \in CatSet |-> TRUE]
  /\ FetcherNew(ConfigTokens)
  /\ IF trading_dates = <<>>
     THEN /\ pc' = "crashed"
          /\ UNCHANGED <<ri, ci>>
     ELSE /\ pc' = "history"
          /\ ri' = 1
          /\ ci' = 1
  /\ UNCHANGED <<files, luStray, markerStore, cliVars>>
  /\ UNCHANGED <<checked_dates, todo, dates_to_refetch, stats, ret,
                 verdict, issues, inspected, operator>>
  /\ UNCHANGED <<counts, success_count, fail_count, still_failed_dates,
                 succeeded_dates, fetchEmpty, fetchLog, written, saved>>

\* fetcher.fetch_<category>_pool(date) up to the request
HistSelect ==
  /\ pc = "history"
  /\ SelectStep
  /\ fetchLog' = Append(fetchLog, <<trading_dates[ri], Cats[ci]>>)
  /\ UNCHANGED fetcherHistory
  /\ UNCHANGED <<ri, ci, counts, success_count, fail_count,
                 still_failed_dates, succeeded_dates, fetchEmpty, written,
                 saved>>
  /\ UNCHANGED <<storeVars, cliVars, checkVars>>

\* the response, and lines 291-350 for the category: the snapshot written
\* when the result is not empty; len() of a result that is no list raises.
\* The summaries written after the loop are CSV files outside the snapshot
\* store.
HistRespond ==
  /\ pc = "history"
  /\ \E status \in Statuses :
       \E body \in (IF status = "200" THEN Bodies ELSE {NoBody}) :
         LET r == FetchResult(status, body)
             date == trading_dates[ri]
             cat == Cats[ci]
         IN /\ RespondStep(status, body)
            /\ IF Truthy(r) /\ r.kind # "list"
               THEN /\ pc' = "crashed"
                    /\ UNCHANGED <<files, ri, ci, fetchEmpty, written>>
               ELSE /\ files' = IF Truthy(r)
                                THEN [files EXCEPT ![<<cat, date>>] =
                                        Snapshot(date, r.n)]
                                ELSE files
                    /\ written' = IF Truthy(r)
                                  THEN [written EXCEPT ![<<cat, date>>] = r.n]
                                  ELSE written
                    /\ fetchEmpty' = IF r = EmptyResult
                                     THEN [fetchEmpty EXCEPT ![date] =
                                             @ \cup {cat}]
                                     ELSE fetchEmpty
                    /\ IF ci < 3
                       THEN /\ ci' = ci + 1
                            /\ UNCHANGED <<pc, ri>>
                       ELSE /\ ri' = ri + 1
                            /\ ci' = 1
                            /\ pc' = IF ri = Len(trading_dates)
                                     THEN "done" ELSE "history"
  /\ UNCHANGED <<fetcherHistory, fetchLog, saved, counts, success_count,
                 fail_count, still_failed_dates, succeeded_dates>>
  /\ UNCHANGED <<dataDir, catDir, luStray, markerStore, cliVars>>
  /\ UNCHANGED <<checked_dates, todo, dates_to_refetch, stats, ret,
                 verdict, issues, inspected, operator>>

\* the states of a file that fetch_two_months_data tells apart: it reads no
\* snapshot before the loop is over
HistFileKinds == {"missing"}

HistInit ==
  /\ FetcherInit(<<>>)
  /\ \/ StoreInit(HistFileKinds, {}, {})
     \/ StoreAbsent
  /\ MarkerInit
  /\ mode = "history"
  /\ argDate = NoDate
  /\ \E S \in SUBSET Dates : trading_dates = SortedSeq(S)
  /\ run = 1
  /\ CheckInit
  /\ RefetchInit

HistNext == HistStart \/ HistSelect \/ HistRespond

HistorySpec == HistInit /\ [][HistNext]_vars

\* ------------------------------------ the two programs that write snapshots

WriteInit == Init \/ HistInit

WriteNext == Next \/ HistNext

WriteSpec == WriteInit /\ [][WriteNext]_vars

\* ------------------------------------- claims about the completeness check

\* the dates the scan finds under limit_up
Discovered == DiscoverDates(files, luStray)

\* the keys of the marker mapping the run loaded
MarkedDates == DOMAIN checked_dates

\* the scan has examined every date and printed the tally
ScanOver == pc = "tally"

\* check_specific_date has returned
SingleOver == pc = "done" /\ mode = "date"

\* the file of category c and date d exists, parses and has count > 0
Positive(c, d) ==
  /\ files[<<c, d>>].st = "json"
  /\ files[<<c, d>>].ctag = "int"
  /\ files[<<c, d>>].cnt > 0

C2_AnyMissingFileListed ==
  ScanOver =>
    \A d \in Dates \ MarkedDates :
      (\E c \in CatSet : Exists(files[<<c, d>>])) =>
        \A c \in CatSet :
          ~Exists(files[<<c, d>>]) =>
            /\ d \in Range(dates_to_refetch)
            /\ [cat |-> c, kind |-> "missing"] \in Range(issues[d])

\* C2 amended: every unmarked date the scan discovers (from a *.json name
\* under limit_up) that misses one of its three category files is listed as
\* incomplete with an issue naming the missing category; a date with no
\* *.json name under limit_up is not examined and not listed.
C2_DiscoveredMissingFileListed ==
  ScanOver =>
    /\ \A d \in Discovered \ MarkedDates :
         \A c \in CatSet :
           ~Exists(files[<<c, d>>]) =>
             /\ d \in Range(dates_to_refetch)
             /\ verdict[d] = "incomplete"
             /\ [cat |-> c, kind |-> "missing"] \in Range(issues[d])
    /\ \A d \in Dates \ Discovered :
         /\ verdict[d] = "none"
         /\ d \notin Range(dates_to_refetch)

\* C2 witness: a listed date whose limit_down file is missing
C2_Witness ==
  /\ ScanOver
  /\ \E d \in Discovered \ MarkedDates :
       /\ ~Exists(files[<<"limit_down", d>>])
       /\ d \in Range(dates_to_refetch)
       /\ [cat |-> "limit_down", kind |-> "missing"] \in Range(issues[d])

\* C3: the scan classifies an unmarked date as complete only if all three
\* category files exist, parse and report count > 0.
C3_CompleteOnlyIfAllPositive ==
  \A d \in Dates :
    verdict[d] = "complete" => \A c \in CatSet : Positive(c, d)

\* C4: every discovered, unmarked date whose three files all exist, parse
\* and have count > 0 is classified complete, counted in already_complete
\* and kept out of the refetch list.
C4_AllPositiveIsComplete ==
  ScanOver =>
    /\ \A d \in Discovered \ MarkedDates :
         (\A c \in CatSet : Positive(c, d)) =>
           /\ verdict[d] = "complete"
           /\ d \notin Range(dates_to_refetch)
    /\ stats.already_complete =
         Cardinality({d \in Dates : verdict[d] = "complete"})

\* C4 witness: a date with three positive files, classified complete
C4_Witness ==
  /\ ScanOver
  /\ \E d \in Discovered \ MarkedDates :
       /\ \A c \in CatSet : Positive(c, d)
       /\ verdict[d] = "complete"
       /\ stats.already_complete >= 1

\* ------------------------------------------------ claims about the refetch

\* the dates of the refetch list whose three fetches are over
Classified == {dates_to_refetch[i] : i \in 1..(ri - 1)}

\* refetch_data has been entered
Refetching == ri > 0

\* C5: a refetched date is still-failing exactly when at least one of its
\* three fetches of this run came back empty, and succeeded otherwise; each
\* date whose fetches are over is in exactly one of the two classes, and
\* success_count + fail_count is the number of those dates: the number of
\* dates passed in once the loop is over.
C5_AnyEmptyFetchFails ==
  Refetching =>
    /\ \A d \in Classified :
         /\ d \in Range(still_failed_dates) <=> fetchEmpty[d] # {}
         /\ d \in succeeded_dates <=> fetchEmpty[d] = {}
         /\ ~(d \in Range(still_failed_dates) /\ d \in succeeded_dates)
    /\ Range(still_failed_dates) \cup succeeded_dates = Classified
    /\ fail_count = Len(still_failed_dates)
    /\ fail_count = Cardinality(Range(still_failed_dates))
    /\ success_count = Cardinality(succeeded_dates)
    /\ success_count + fail_count = ri - 1
    /\ pc \in {"report", "done"} =>
         success_count + fail_count = Len(dates_to_refetch)

\* C5 witness: a date with limit_up and explode fetched and limit_down
\* empty is still-failing, next to a date that succeeded
C5_Witness ==
  /\ pc = "report"
  /\ \E d \in Range(still_failed_dates) : fetchEmpty[d] = {"limit_down"}
  /\ succeeded_dates # {}
  /\ success_count + fail_count = Len(dates_to_refetch)

\* ------------------------------------- the fetcher alone: any call sequence

FInit ==
  /\ \E n \in 1..MaxTokens : FetcherInit([i \in 1..n |-> i])
  /\ StoreInit({}, {}, {})
  /\ markerStore = MarkerFile("absent", NoMarkers)
  /\ mode = "normal"
  /\ argDate = NoDate
  /\ trading_dates = <<>>
  /\ run = 1
  /\ CheckInit
  /\ RefetchInit

FSelect ==
  /\ Len(callLog) < MaxCalls
  /\ SelectStep
  /\ selIndex' = current_token_index
  /\ selFailed' = failed_tokens
  /\ reqFailed' = failed_tokens'
  /\ UNCHANGED <<lastStatus, result, lastBody, callLog>>
  /\ UNCHANGED <<storeVars, cliVars, checkVars, refetchVars>>

FRespond ==
  \E status \in Statuses :
    \E body \in (IF status = "200" THEN Bodies ELSE {NoBody}) :
      /\ RespondStep(status, body)
      /\ lastStatus' = status
      /\ result' = FetchResult(status, body)
      /\ lastBody' = body
      /\ callLog' = Append(callLog, [tok |-> urlToken, status |-> status])
      /\ UNCHANGED <<selIndex, selFailed, reqFailed>>
      /\ UNCHANGED <<storeVars, cliVars, checkVars, refetchVars>>

FNext == FSelect \/ FRespond

FetcherSpec == FInit /\ [][FNext]_vars

\* ------------------------------------------------ claims about the fetcher

AllTokens == TokenSet(tokens)

\* the 0-based position of token t in the credential list
PosOf(t) == CHOOSE i \in 0..(Len(tokens) - 1) : TokenAt(tokens, i) = t

\* the number of steps from position a forward to position b, cyclically
CyclicDist(a, b) == (b - a + Len(tokens)) % Len(tokens)

\* a selection has just returned and its request is in flight
Selected == fpc = "requesting"

\* C6: while some credential is not marked failed, a selection returns the
\* first credential, in cyclic order from the rotation position, that is not
\* in the failed set: every credential it passed over is failed, the one it
\* returns is not, the rotation position moves to just after it, and the
\* failed set is left as it was.
C6_RoundRobinSkipsFailed ==
  (Selected /\ selFailed # AllTokens) =>
    /\ urlToken \in AllTokens \ selFailed
    /\ urlToken \notin failed_tokens
    /\ failed_tokens = selFailed
    /\ \A k \in 0..(CyclicDist(selIndex, PosOf(urlToken)) - 1) :
         TokenAt(tokens, (selIndex + k) % Len(tokens)) \in selFailed
    /\ current_token_index = (PosOf(urlToken) + 1) % Len(tokens)

\* C6 witness: a selection that skipped a failed credential while another
\* one was still usable
C6_Witness ==
  /\ Selected
  /\ selFailed # {}
  /\ selFailed # AllTokens
  /\ TokenAt(tokens, selIndex) \in selFailed
  /\ urlToken # TokenAt(tokens, selIndex)

\* C7 as stated: when every credential is marked failed, the selection
\* clears the failed set and uses the first credential of the list.
C7_ResetUsesFirstCredential ==
  (Selected /\ selFailed = AllTokens) =>
    /\ failed_tokens = {}
    /\ urlToken = tokens[1]

\* C7 amended: when every credential is marked failed, the selection clears
\* the failed set and uses the credential at the rotation position (the one
\* after the credential examined last); every selection returns a configured
\* credential.
C7_ResetUsesRotationPosition ==
  /\ (Selected /\ selFailed = AllTokens) =>
       /\ failed_tokens = {}
       /\ urlToken = TokenAt(tokens, selIndex)
       /\ current_token_index = (selIndex + 1) % Len(tokens)
  /\ Selected => urlToken \in AllTokens

\* C7 witness: a reset that did not start at the first credential
C7_Witness ==
  /\ Selected
  /\ selFailed = AllTokens
  /\ selIndex # 0
  /\ failed_tokens = {}
  /\ urlToken # tokens[1]

\* the first credential has answered 401 to every call that used it
FirstAlways401 ==
  \A i \in 1..Len(callLog) :
    callLog[i].tok = 1 => callLog[i].status = "401"

\* call i ended with the credential it used marked as failed
MarkedAt(i) == callLog[i].status \in MarkingStatuses

Returned == fpc = "idle" /\ callLog # <<>>

\* C9: a call that receives 401, 403 or 429 adds exactly the credential
\* selected for that call to the failed set and returns an empty result.
C9_MarksExactlySelected ==
  (Returned /\ lastStatus \in MarkingStatuses) =>
    /\ failed_tokens = reqFailed \cup {urlToken}
    /\ urlToken = callLog[Len(callLog)].tok
    /\ result = EmptyResult

\* C9 witness: a rate-limited call added its credential to a failed set
\* that already held another one
C9_Witness ==
  /\ Returned
  /\ lastStatus = "429"
  /\ reqFailed # {}
  /\ urlToken \notin reqFailed
  /\ failed_tokens = reqFailed \cup {urlToken}

\* the credentials some finished call marked failed after a 401 or 403
AuthFailed ==
  {callLog[i].tok : i \in {j \in 1..Len(callLog) :
                             callLog[j].status \in {"401", "403"}}}

\* C10 as stated: a credential marked failed after 401/403 is in the failed
\* set in every later state and no later call selects it.
C10_FailedForever ==
  \A t \in AuthFailed :
    /\ t \in failed_tokens
    /\ Selected => urlToken # t

\* C10 amended: a credential in the failed set stays in it, and is not
\* selected, until every credential is marked failed; only the selection
\* that finds them all failed clears the set and may select it again.
C10_FailedUntilAllFailed ==
  /\ [][\A t \in failed_tokens :
          t \in failed_tokens' \/ failed_tokens = AllTokens]_vars
  /\ []((Selected /\ urlToken \in selFailed) => selFailed = AllTokens)

\* C10 witness: a credential marked failed after a 401 is still marked
\* while a later call uses another credential
C10_Witness ==
  /\ Selected
  /\ Len(callLog) >= 2
  /\ callLog[1].status = "401"
  /\ callLog[1].tok \in failed_tokens
  /\ urlToken # callLog[1].tok

\* the last call ended in a timeout, a network error, an HTTP error status
\* other than 401/403/429, or a body that is not JSON
SoftFailure ==
  \/ lastStatus \in {"timeout", "neterr", "500"}
  \/ lastStatus = "200" /\ lastBody.shape = "badjson"

\* C11: a call that ends in a timeout, a network error, an HTTP error status
\* other than 401/403/429 or a JSON parse failure returns an empty result and
\* marks no credential: the failed set is the one the request was sent with,
\* it holds nothing the set before the call did not hold, and the credential
\* the call used is not in it.
C11_SoftFailureReturnsEmpty ==
  (Returned /\ SoftFailure) =>
    /\ result = EmptyResult
    /\ failed_tokens = reqFailed
    /\ failed_tokens \subseteq selFailed
    /\ urlToken \notin failed_tokens

\* C11 witness: a call answered with an error status other than 401/403/429
\* returned empty and left the one failed credential as the only one
C11_Witness ==
  /\ Returned
  /\ lastStatus = "500"
  /\ result = EmptyResult
  /\ reqFailed # {}
  /\ failed_tokens = reqFailed
  /\ urlToken \notin failed_tokens

\* ------------------------------ claims about the requests of the refetch

\* the order of the three category fetches of a date
FetchOrder == <<"limit_up", "limit_down", "explode">>

\* the fetch calls a refetch of dates_to_refetch is to issue: three per
\* date, date by date in list order
ExpectedFetches ==
  [i \in 1..(3 * Len(dates_to_refetch)) |->
     <<dates_to_refetch[((i - 1) \div 3) + 1], FetchOrder[((i - 1) % 3) + 1]>>]

IsPrefix(a, b) ==
  /\ Len(a) <= Len(b)
  /\ \A i \in 1..Len(a) : a[i] = b[i]

Ascending(q) == \A i, j \in 1..Len(q) : i < j => q[i] < q[j]

\* refetch_data is over: it returned or it raised
RefetchOver == Refetching /\ pc # "refetch"

\* C12: when refetch_data is over it has issued exactly three fetch calls
\* for every date passed in, 3n in all, whatever the fetches returned.
C12_ThreeFetchesPerDate ==
  RefetchOver =>
    /\ Len(fetchLog) = 3 * Len(dates_to_refetch)
    /\ fetchLog = ExpectedFetches

\* C13: the scan takes the dates in ascending order (the dates still to
\* come are ascending and follow every date already classified); the
\* refetch list is ascending and so free of duplicates; and the fetch calls
\* issued so far are the first of the sequence: date by date in list order,
\* for each date limit_up, limit_down, explode.
C13_FetchesTotallyOrdered ==
  /\ Ascending(todo)
  /\ \A d \in Dates :
       verdict[d] # "none" => \A e \in Range(todo) : d < e
  /\ Ascending(dates_to_refetch)
  /\ IsPrefix(fetchLog, ExpectedFetches)
  /\ pc = "refetch" =>
       Len(fetchLog) = 3 * (ri - 1) + (ci - 1)
                         + (IF fpc = "requesting" THEN 1 ELSE 0)

\* C13 witness: two dates refetched, the six fetches in order
C13_Witness ==
  /\ pc = "report"
  /\ Len(dates_to_refetch) = 2
  /\ dates_to_refetch[1] < dates_to_refetch[2]
  /\ Len(fetchLog) = 6
  /\ fetchLog[3] = <<dates_to_refetch[1], "explode">>
  /\ fetchLog[4] = <<dates_to_refetch[2], "limit_up">>

\* ------------------------------------ claims about the snapshots written

\* C14: a step changes the snapshot file of (category, date) only when it is
\* the answer to the fetch of that category and date and the result is not
\* empty; an empty result leaves every file as it was; and no step removes
\* a file or a category directory.
C14_WriteOnlyOnNonEmptyFetch ==
  [][/\ \A k \in FileKeys :
          files'[k] # files[k] =>
            /\ pc = "refetch" /\ fpc = "requesting"
            /\ k = <<FetchOrder[ci], dates_to_refetch[ri]>>
            /\ fetchLog[Len(fetchLog)] = <<k[2], k[1]>>
            /\ k[1] \notin fetchEmpty'[k[2]]
            /\ Exists(files'[k])
     /\ fetchEmpty' # fetchEmpty => files' = files
     /\ \A k \in FileKeys : Exists(files[k]) => Exists(files'[k])
     /\ \A c \in CatSet : catDir[c] => catDir'[c]]_vars

\* C14 witness: the refetch of a date came back empty for limit_down, whose
\* file is still missing, and rewrote the explode file
C14_Witness ==
  /\ pc = "report"
  /\ \E d \in Range(dates_to_refetch) :
       /\ "limit_down" \in fetchEmpty[d]
       /\ ~Exists(files[<<"limit_down", d>>])
       /\ "explode" \notin fetchEmpty[d]
       /\ files[<<"explode", d>>].data <= MaxRecords
       /\ files[<<"explode", d>>].cnt >= 1

\* the files this run has written
WrittenKeys == {k \in FileKeys : written[k] > 0}

\* json.load of a snapshot file: the date, count and data it yields
Reload(f) == [date |-> f.date, count |-> CountField(f), data |-> f.data]

MarkAnswer(ops) == ops[Len(ops)].a

\* the step asks the operator whether to mark the dates that still fail
AsksToMark ==
  /\ pc = "report"
  /\ still_failed_dates # <<>>
  /\ Len(operator') = Len(operator) + 1
  /\ operator'[Len(operator')].q = "mark"

\* C16: the marker file is changed only by the step that ends the refetch,
\* after every date has been fetched, when some date still fails and the
\* operator does not answer 'n'; when that save goes through, the file then
\* maps every still-failing date to its reason and every other date of the
\* previous mapping to its previous reason, and nothing else; when the
\* operator answers 'n' or no date still fails the file is left as it was.
C16_MarkersOnlyByBatchSave ==
  [][/\ markerStore' # markerStore =>
          /\ AsksToMark
          /\ MarkAnswer(operator') # "n"
          /\ ri = Len(dates_to_refetch) + 1
          /\ Len(fetchLog) = 3 * Len(dates_to_refetch)
     /\ (AsksToMark /\ MarkAnswer(operator') # "n" /\ saved' # "failed") =>
          /\ markerStore'.st = "ok"
          /\ DOMAIN markerStore'.map =
               (DOMAIN LoadMarkers(markerStore))
                 \cup Range(still_failed_dates)
          /\ \A d \in Range(still_failed_dates) :
               markerStore'.map[d] = MarkerReason(files, d)
          /\ \A d \in (DOMAIN LoadMarkers(markerStore))
                        \ Range(still_failed_dates) :
               markerStore'.map[d] = LoadMarkers(markerStore)[d]
     /\ (AsksToMark /\ MarkAnswer(operator') = "n") =>
          markerStore' = markerStore
     /\ (pc = "report" /\ still_failed_dates = <<>>) =>
          markerStore' = markerStore]_vars

\* C16 witness: the save went through; the file holds a marker it held
\* before next to the marker of a date that still fails
C16_Witness ==
  /\ pc = "done"
  /\ saved = "written"
  /\ markerStore.st = "ok"
  /\ \E d \in DOMAIN markerStore.map : markerStore.map[d] = GivenReason
  /\ \E d \in Range(still_failed_dates) :
       /\ d \in DOMAIN markerStore.map
       /\ markerStore.map[d] # GivenReason

\* the dates that are keys of a marker file
StoreKeys(store) == IF store.st = "ok" THEN DOMAIN store.map ELSE {}

\* the step reads the marker file at the start of a check
LoadsMarkers == pc = "main" /\ pc' # "main" /\ (dataDir \/ mode = "date")

\* C17: over any sequence of runs, no step removes a key from the marker
\* file (a save that raises apart); a run loads every key the file holds
\* when it starts; and a run looks at no file of a date it loaded as a key,
\* does not list it for refetch and issues no fetch for it.
C17_MarkersNeverExpire ==
  [][/\ (StoreKeys(markerStore) \subseteq StoreKeys(markerStore')
          \/ saved' = "failed")
     /\ LoadsMarkers => DOMAIN checked_dates' = StoreKeys(markerStore)
     /\ \A d \in DOMAIN checked_dates' :
          /\ \A c \in CatSet : <<c, d>> \notin inspected'
          /\ d \notin Range(dates_to_refetch')
          /\ \A c \in CatSet : <<d, c>> \notin Range(fetchLog')]_vars

\* C17 witness: in the second run the scan skips a date that the first run
\* marked, although one of its files is still not in order
C17_Witness ==
  /\ run = 2
  /\ ScanOver
  /\ \E d \in MarkedDates :
       /\ checked_dates[d] # GivenReason
       /\ verdict[d] = "skipped"
       /\ \E c \in CatSet : ~Positive(c, d)
       /\ \A c \in CatSet : <<c, d>> \notin inspected

\* ---------------------------------------- claims about what a check changes

\* C18: a run with --check-only issues no fetch (it builds no fetcher and
\* never enters refetch_data), puts no question to the operator, and no
\* step of it changes a snapshot file or the marker file, whatever the
\* stores hold.
C18_CheckOnlyTouchesNothing ==
  /\ [](mode = "check_only" =>
         /\ fetchLog = <<>>
         /\ tokens = <<>>
         /\ fpc = "idle"
         /\ ri = 0
         /\ operator = <<>>
         /\ WrittenKeys = {}
         /\ saved = "none"
         /\ pc \in {"main", "scan", "tally", "done"})
  /\ [][mode = "check_only" =>
         /\ files' = files
         /\ luStray' = luStray
         /\ markerStore' = markerStore]_vars

\* C18 witness: a run with --check-only has ended with a date to refetch
C18_Witness ==
  /\ mode = "check_only"
  /\ pc = "done"
  /\ dates_to_refetch # <<>>
  /\ stats.to_refetch >= 1
  /\ fetchLog = <<>>
  /\ operator = <<>>

\* C19: no step of the completeness check (the scan up to the tally, or the
\* single-date check) changes the snapshot store (the data directory, the
\* category directories, the files and names in them) or the marker file.
C19_CheckIsReadOnly ==
  [][/\ dataDir' = dataDir
     /\ catDir' = catDir
     /\ files' = files
     /\ luStray' = luStray
     /\ markerStore' = markerStore]_vars

\* the dates the scan has examined: skipped as marked, or classified
Examined == {d \in Dates : verdict[d] # "none"}

\* C20: when the scan is over, the dates it examined are exactly the dates
\* D for which the file limit_up/D.json exists.
C20_ExaminedAreLimitUpFiles ==
  ScanOver =>
    Examined = {d \in Dates : Exists(files[<<"limit_up", d>>])}

\* ------------------------------------------------ claims about the tally

\* the dates the scan has put in a class
InClass(class) == {d \in Dates : verdict[d] = class}

\* C21: when the scan is over every discovered date is in exactly one of
\* the classes skipped, complete and incomplete, and no other date is in
\* any; skipped_checked, already_complete and to_refetch are the sizes of
\* the three classes; total = already_complete + to_refetch; total +
\* skipped_checked is the number of discovered dates; and to_refetch is the
\* length of the refetch list, which holds the incomplete dates.
C21_TallyPartitionsDiscovered ==
  ScanOver =>
    /\ \A d \in Discovered : verdict[d] \in {"skipped", "complete",
                                               "incomplete"}
    /\ \A d \in Dates \ Discovered : verdict[d] = "none"
    /\ stats.skipped_checked = Cardinality(InClass("skipped"))
    /\ stats.already_complete = Cardinality(InClass("complete"))
    /\ stats.to_refetch = Cardinality(InClass("incomplete"))
    /\ stats.total = stats.already_complete + stats.to_refetch
    /\ stats.total + stats.skipped_checked = Cardinality(Discovered)
    /\ stats.to_refetch = Len(dates_to_refetch)
    /\ Range(dates_to_refetch) = InClass("incomplete")

\* C21 witness: one date skipped as marked, one listed for its missing
\* limit_down file
C21_Witness ==
  /\ ScanOver
  /\ stats = [total |-> 1, to_refetch |-> 1, already_complete |-> 0,
              skipped_checked |-> 1]
  /\ \E d \in InClass("incomplete") : ~Exists(files[<<"limit_down", d>>])

\* the file is missing, does not parse, has no count key, or has count 0
Offending(f) ==
  \/ f.st = "missing"
  \/ f.st = "corrupt"
  \/ f.st = "json" /\ f.ctag = "absent"
  \/ f.st = "json" /\ f.ctag = "int" /\ f.cnt = 0

\* the issues raised for date d that name category c
IssuesOn(d, c) == {i \in 1..Len(issues[d]) : issues[d][i].cat = c}

\* C22: when the scan is over, every unmarked discovered date with a file
\* that is missing, does not parse, has no count key or has count 0 is in
\* the refetch list, classified incomplete, with exactly one issue for each
\* such category; and every check reaches its end: the scan the tally, with
\* every discovered date classified, whatever the files hold.
C22_MalformedNeverAborts ==
  /\ [](ScanOver =>
         /\ \A d \in Discovered : verdict[d] # "none"
         /\ \A d \in Discovered \ MarkedDates :
              \A c \in CatSet :
                Offending(files[<<c, d>>]) =>
                  /\ d \in Range(dates_to_refetch)
                  /\ verdict[d] = "incomplete"
                  /\ Cardinality(IssuesOn(d, c)) = 1)
  /\ <>(pc \in {"tally", "done"})

\* C22 witness: the scan reached the tally with a date listed for a file
\* that does not parse and a file without a count key
C22_Witness ==
  /\ ScanOver
  /\ \E d \in Range(dates_to_refetch) :
       /\ \E c \in CatSet : files[<<c, d>>].st = "corrupt"
       /\ \E c \in CatSet :
            /\ files[<<c, d>>].st = "json"
            /\ files[<<c, d>>].ctag = "absent"
       /\ Len(issues[d]) = 2

\* ------------------------------------------ claims about the command line

\* the answer to the question whether to refetch
RefetchAnswer == operator[1].a

\* C23: in a run without flags, refetch_data is entered and a fetch is
\* issued only after the scan listed at least one date and the operator
\* answered 'y' to the question; after any other answer, the empty one
\* included, the run is over with no fetch and nothing written; when the
\* scan lists no date the operator is asked nothing and no fetch is issued;
\* and no step before refetch_data changes a snapshot or the marker file.
C23_RefetchOnlyAfterYes ==
  /\ [](mode = "normal" =>
         /\ (Refetching \/ fetchLog # <<>> \/ tokens # <<>>) =>
              /\ dates_to_refetch # <<>>
              /\ todo = <<>>
              /\ operator # <<>>
              /\ operator[1].q = "refetch"
              /\ RefetchAnswer = "y"
         /\ (operator # <<>> /\ RefetchAnswer # "y") =>
              /\ pc = "done"
              /\ ~Refetching
              /\ fetchLog = <<>>
              /\ WrittenKeys = {}
              /\ saved = "none"
         /\ dates_to_refetch = <<>> =>
              /\ operator = <<>>
              /\ fetchLog = <<>>
              /\ ~Refetching)
  /\ [][(mode = "normal" /\ ~Refetching') =>
          /\ files' = files
          /\ markerStore' = markerStore]_vars

\* C23 witness: the operator just pressed return at the question; the run
\* is over, the listed date untouched
C23_Witness ==
  /\ mode = "normal"
  /\ pc = "done"
  /\ dates_to_refetch # <<>>
  /\ operator = <<[q |-> "refetch", a |-> ""]>>
  /\ fetchLog = <<>>
  /\ WrittenKeys = {}

\* C24: when a run with --date D is over it has looked at the files of D
\* only, and its exit status tells a complete D (status 0) from an
\* incomplete one (another status).
C24_ExitStatusTellsResult ==
  SingleOver =>
    /\ inspected \subseteq {<<c, argDate>> : c \in CatSet}
    /\ (ExitStatus = 0 <=> ret = "true")

\* ------------------------------------- claims about the fetcher's result

\* the result C25 states for the body of a successful response
StatedResult(body) ==
  IF body.shape \in {"array", "env_list", "env_obj_list"}
  THEN ListOf(body.n) ELSE EmptyResult

\* C25: a call answered with status 200 returns the array of a bare array,
\* of {code: 200, data: [...]} or of {code: 200, data: {list: [...]}}, and
\* an empty result for a body of any other shape.
C25_ResultByShape ==
  (Returned /\ lastStatus = "200") => result = StatedResult(lastBody)

\* C26: a marker file that is absent or does not parse is loaded as the
\* empty mapping, and the check that loaded it goes on to its end (the
\* tally of the scan, the verdict of the single-date check); a save that
\* fails is swallowed: the run that attempted it ends as any other, all
\* dates fetched; and no run is ended by an exception before the fetches or
\* after a save was attempted.
C26_MarkerIOFailuresNotFatal ==
  /\ []((pc # "main" /\ saved = "none" /\ markerStore.st # "ok") =>
          checked_dates = NoMarkers)
  /\ [](saved = "failed" =>
          /\ pc = "done"
          /\ Len(fetchLog) = 3 * Len(dates_to_refetch))
  /\ [](pc = "crashed" => (saved = "none" /\ Refetching))
  /\ ((pc = "main" /\ markerStore.st # "ok") ~> (pc \in {"tally", "done"}))

\* C26 witness: a run that found the marker file unreadable listed a date,
\* refetched it, failed to save its marker, and ended
C26_Witness ==
  /\ pc = "done"
  /\ checked_dates = NoMarkers
  /\ markerStore.st = "unreadable"
  /\ still_failed_dates # <<>>
  /\ saved = "failed"

\* C27: when the markers have been saved, every date that was marked has,
\* on disk, at least one of its three category files missing, corrupt or
\* with count 0 (the files are those the refetch left: the save changes
\* none).
C27_MarkedHaveFileIssue ==
  (pc = "done" /\ saved = "written") =>
    \A d \in Range(still_failed_dates) :
      /\ d \in StoreKeys(markerStore)
      /\ \E c \in CatSet : ~Positive(c, d)

\* the call at position i brought records
BroughtData(i) ==
  /\ callLog[i].status = "200"
  /\ fetchLog[i][2] \notin fetchEmpty[fetchLog[i][1]]

\* credential g was accepted whenever it was used, and every call brought
\* records unless it was made with another credential and refused 401/403
RecoverableRun(g) ==
  /\ \A i \in 1..Len(callLog) :
       IF callLog[i].tok = g THEN BroughtData(i)
       ELSE callLog[i].status \in {"401", "403"} \/ BroughtData(i)
  /\ \E i \in 1..Len(callLog) : callLog[i].tok # g

\* C28: credential failure is recovered by rotation. In a refetch where
\* one credential is accepted at every use and the upstream has records for
\* every category, a 401/403 on another credential leaves no date
\* still-failing; and a call that ends with 401/403, so that its category
\* counts zero, leaves every credential in the failed set.
C28_RotationRecoversLocally ==
  /\ (pc \in {"report", "done"} /\ \E g \in AllTokens : RecoverableRun(g)) =>
       still_failed_dates = <<>>
  /\ (Refetching /\ Returned /\ lastStatus \in {"401", "403"}) =>
       failed_tokens = AllTokens
\* ------------------------- the single-date check against the full scan

\* the date is no key of the loaded markers and limit_up/<d>.json exists
Comparable(d) ==
  /\ d \notin MarkedDates
  /\ Exists(files[<<"limit_up", d>>])

\* C29: the single-date check and the scan agree. On the store a
\* single-date check ran on, it returned true for a marked date, and for a
\* date that is not marked and has a limit_up file it returned true exactly
\* when the scan's checks of the three files raise no issue; and on the
\* store a scan ran on, such a date was classified complete exactly when
\* check_specific_date finds all three files in order.
C29_SingleAgreesWithScan ==
  /\ (SingleOver /\ argDate \in MarkedDates) => ret = "true"
  /\ (SingleOver /\ Comparable(argDate)) =>
       (ret = "true" <=> ScanIssues(files, argDate) = <<>>)
  /\ ScanOver =>
       \A d \in Discovered :
         Comparable(d) =>
           (verdict[d] = "complete" <=> SingleAllOk(files, d))
\* ------------------------------------------- the fetcher's state is sound

\* C30: after any sequence of calls on a fetcher with at least one
\* credential, the rotation index is a position of the credential list, the
\* failed set holds configured credentials only, a selection records the
\* credential it returned as the one in use, and a call that marked a
\* credential added the one its own selection chose and no other.
C30_FetcherStateSound ==
  /\ current_token_index \in 0..(Len(tokens) - 1)
  /\ failed_tokens \subseteq AllTokens
  /\ Selected => last_used_token = urlToken
  /\ (Returned /\ lastStatus \in MarkingStatuses) =>
       /\ urlToken \in failed_tokens
       /\ failed_tokens \ reqFailed \subseteq {urlToken}

\* C30 witness: a call marks its credential after an earlier call used
\* another one, which is not marked
C30_Witness ==
  /\ Returned
  /\ lastStatus \in MarkingStatuses
  /\ Len(callLog) >= 2
  /\ callLog[1].tok # urlToken
  /\ callLog[1].tok \notin failed_tokens
  /\ urlToken \in failed_tokens
  /\ current_token_index \in 0..(Len(tokens) - 1)
====
